---------------------------- MODULE Spec2Model ----------------------------
(***************************************************************************)
(* Model of the toy RSA engine, src/toy_rsa/src/main.rs.                   *)
(*                                                                         *)
(* The engine is a set of pure functions over u64 / i64 and one entry      *)
(* point, main.  Every function is an operator of the same name, computed  *)
(* the way the code computes it (loops are RECURSIVE operators over the    *)
(* loop's variables).  main is a state machine: one action per step of its *)
(* body.                                                                   *)
(*                                                                         *)
(* Machine words: the model checker's integers are 32 bits wide, so the    *)
(* 64-bit word of the program is scaled to WordBits bits.  u64 is          *)
(* 0..U64_MAX with U64_MAX = 2^WordBits - 1 and i64 is I64_MIN..I64_MAX    *)
(* with I64_MAX = 2^(WordBits-1) - 1; saturation, casts and overflow       *)
(* happen at these limits exactly as they do at 2^64 in the program.       *)
(*                                                                         *)
(* Unchecked arithmetic (i * i and i += 1 in is_prime_like, the product    *)
(* and the difference in extended_gcd) panics when the crate is built with *)
(* overflow checks (debug profile) and wraps when it is built without      *)
(* (release profile).  The repository does not fix the profile, so the     *)
(* variable overflow_checks is chosen freely in the initial state.  i64    *)
(* `/` and `%` panic on i64::MIN by -1 under either profile.  A panic is   *)
(* the value Panic, which no u64 equals; it propagates to every caller.    *)
(***************************************************************************)
EXTENDS Integers, Sequences, FiniteSets, TLC

VARIABLES
    overflow_checks,    \* build profile: TRUE = overflow panics, FALSE = wraps
    p_candidate,        \* main's arguments
    q_candidate,
    e,
    message,
    use_crt,
    pc,                 \* position in main's body
    encrypted,          \* main's locals
    fallback_encrypted,
    crt_encrypted,
    ret,                \* main's return value (Panic when main panicked)
    calls,              \* the engine functions main has called, in order
    call,               \* SpecInverse: the function called directly, or "none"
    arg_a,              \* SpecInverse: the two arguments of the call
    arg_m,
    inv,                \* SpecInverse: what mod_inverse(arg_a, arg_m) returned
    egcd,               \* SpecInverse: what extended_gcd(arg_a, arg_m) returned
    args,               \* SpecCalls, SpecArith: the arguments of the call
    returned,           \* SpecCalls, SpecArith: what the call returned
    loop,               \* SpecLoops: the loop or recursion that is running
    frame               \* SpecLoops: its variables

mainVars == <<p_candidate, q_candidate, e, message, use_crt, pc, encrypted,
              fallback_encrypted, crt_encrypted, ret, calls>>
invVars == <<call, arg_a, arg_m, inv, egcd>>
callVars == <<args, returned>>
loopVars == <<loop, frame>>
vars == <<overflow_checks, mainVars, invVars, callVars, loopVars>>

---------------------------------------------------------------------------
(* Machine words *)

WordBits == 24

RECURSIVE Pow2(_)
Pow2(k) == IF k = 0 THEN 1 ELSE 2 * Pow2(k - 1)

U64_MAX == Pow2(WordBits) - 1
I64_MAX == Pow2(WordBits - 1) - 1
I64_MIN == 0 - Pow2(WordBits - 1)

U64 == 0..U64_MAX

Panic == 0 - 1
NotStarted == 0 - 2

Abs(v) == IF v < 0 THEN 0 - v ELSE v

\* a * b exceeds lim (a, b >= 0), decided without forming the product
MulExceeds(x, y, lim) == y # 0 /\ x > lim \div y

\* (x * y) mod n for 0 <= x, y and n > 0, by doubling: no intermediate
\* value exceeds 2 * n
RECURSIVE MulMod(_, _, _)
MulMod(x, y, n) ==
    IF y = 0 THEN 0
    ELSE LET h == MulMod(x, y \div 2, n)
             d == (h + h) % n
         IN IF y % 2 = 1 THEN (d + (x % n)) % n ELSE d

\* two's-complement reading of a word
ToSigned(u) == IF u > I64_MAX THEN u - U64_MAX - 1 ELSE u
\* the word of a signed value
ToUnsigned(v) == IF v < 0 THEN v + U64_MAX + 1 ELSE v

\* `as i64` and `as u64`
as_i64(u) == ToSigned(u)
as_u64(v) == ToUnsigned(v)

\* i64 `/` and `%`: truncation toward zero, the remainder has the sign of
\* the dividend.  Both panic on I64_MIN / -1 in every build profile.
DivOverflows(x, y) == x = I64_MIN /\ y = 0 - 1
i64_div(x, y) ==
    LET qt == Abs(x) \div Abs(y)
    IN IF (x < 0) = (y < 0) THEN qt ELSE 0 - qt
i64_rem(x, y) ==
    LET r == Abs(x) % Abs(y)
    IN IF x < 0 THEN 0 - r ELSE r

---------------------------------------------------------------------------
(* Safe operations for u64 *)

safe_add_u64(x, y) == IF x + y > U64_MAX THEN U64_MAX ELSE x + y

safe_sub_u64(x, y) == IF x < y THEN 0 ELSE x - y

safe_mul_u64(x, y) == IF MulExceeds(x, y, U64_MAX) THEN U64_MAX ELSE x * y

safe_div_u64(x, y) == IF y = 0 THEN 0 ELSE x \div y

(* Safe operations for i64 *)

safe_add_i64(x, y) ==
    IF x + y > I64_MAX \/ x + y < I64_MIN THEN I64_MAX ELSE x + y

safe_sub_i64(x, y) ==
    IF x - y > I64_MAX \/ x - y < I64_MIN THEN I64_MIN ELSE x - y

safe_mul_i64(x, y) ==
    IF (x < 0) = (y < 0)
    THEN IF MulExceeds(Abs(x), Abs(y), I64_MAX) THEN I64_MAX ELSE x * y
    ELSE IF MulExceeds(Abs(x), Abs(y), I64_MAX + 1) THEN I64_MAX ELSE x * y

\* the result is [panic, val]: `a / b` panics on I64_MIN / -1
safe_div_i64(x, y) ==
    IF y = 0 THEN [panic |-> FALSE, val |-> 0]
    ELSE IF DivOverflows(x, y) THEN [panic |-> TRUE, val |-> 0]
    ELSE [panic |-> FALSE, val |-> i64_div(x, y)]


---------------------------------------------------------------------------
(* Unchecked arithmetic: panics under overflow checks, wraps otherwise *)

\* u64 x * y
u64_mul(x, y) ==
    IF MulExceeds(x, y, U64_MAX)
    THEN IF overflow_checks THEN Panic ELSE MulMod(x, y, U64_MAX + 1)
    ELSE x * y

\* u64 x + 1
u64_inc(x) ==
    IF x = U64_MAX THEN IF overflow_checks THEN Panic ELSE 0 ELSE x + 1

\* i64 x * y; the result is [panic, val]
i64_mul(x, y) ==
    LET over == IF (x < 0) = (y < 0)
                THEN MulExceeds(Abs(x), Abs(y), I64_MAX)
                ELSE MulExceeds(Abs(x), Abs(y), I64_MAX + 1)
    IN IF over
       THEN [panic |-> overflow_checks,
             val |-> ToSigned(MulMod(ToUnsigned(x), ToUnsigned(y), U64_MAX + 1))]
       ELSE [panic |-> FALSE, val |-> x * y]

\* i64 x - y; the result is [panic, val]
i64_sub(x, y) ==
    IF x - y > I64_MAX \/ x - y < I64_MIN
    THEN [panic |-> overflow_checks,
          val |-> ToSigned((x - y) % (U64_MAX + 1))]
    ELSE [panic |-> FALSE, val |-> x - y]

---------------------------------------------------------------------------
(* is_prime_like: trial division.  The result is "true", "false" or       *)
(* "panic".  The loop `while i * i <= candidate` runs on the loop state    *)
(* [done, out, i]: is_prime_like_iter is one evaluation of the loop        *)
(* condition and body, is_prime_like_loop(candidate, st, k) iterates it    *)
(* from st until the function returns, at most 2^k times (the loop cannot  *)
(* run longer than the word has values; halving k keeps the evaluation     *)
(* shallow).                                                               *)

is_prime_like_iter(candidate, i) ==
    LET sq == u64_mul(i, i)
    IN IF sq = Panic THEN [done |-> TRUE, out |-> "panic", i |-> i]
       ELSE IF sq <= candidate
       THEN IF safe_div_u64(candidate, i) * i = candidate
            THEN [done |-> TRUE, out |-> "false", i |-> i]
            ELSE IF u64_inc(i) = Panic
            THEN [done |-> TRUE, out |-> "panic", i |-> i]
            ELSE [done |-> FALSE, out |-> "", i |-> u64_inc(i)]
       ELSE [done |-> TRUE, out |-> "true", i |-> i]

RECURSIVE is_prime_like_loop(_, _, _)
is_prime_like_loop(candidate, st, k) ==
    IF st.done THEN st
    ELSE IF k = 0 THEN is_prime_like_iter(candidate, st.i)
    ELSE is_prime_like_loop(candidate,
                            is_prime_like_loop(candidate, st, k - 1), k - 1)

is_prime_like(candidate) ==
    IF candidate < 2 THEN "false"
    ELSE is_prime_like_loop(candidate, [done |-> FALSE, out |-> "", i |-> 2],
                            WordBits).out

(* gcd_u64: Euclid's algorithm *)

RECURSIVE gcd_u64(_, _)
gcd_u64(x, y) == IF y # 0 THEN gcd_u64(y, x % y) ELSE x

(* mod_exp: square-and-multiply.  mod_exp_loop is the `while e > 0` loop   *)
(* over (result, current, e).                                              *)

RECURSIVE mod_exp_loop(_, _, _, _)
mod_exp_loop(result, current, ex, modulus) ==
    IF ex > 0
    THEN LET result1 == IF ex % 2 = 1
                        THEN safe_mul_u64(result, current) % modulus
                        ELSE result
             current1 == safe_mul_u64(current, current) % modulus
         IN mod_exp_loop(result1, current1, ex \div 2, modulus)
    ELSE result

\* mod_exp with the accumulator reduced once more on return
mod_exp_ReducedResult(base, ex, modulus) ==
    IF modulus = 0 THEN 0
    ELSE mod_exp_loop(1, base % modulus, ex, modulus) % modulus

\* mod_exp started on the base as given, without `base % modulus`
mod_exp_UnreducedBase(base, ex, modulus) ==
    IF modulus = 0 THEN 0 ELSE mod_exp_loop(1, base, ex, modulus)

mod_exp(base, ex, modulus) ==
    IF modulus = 0 THEN 0 ELSE mod_exp_loop(1, base % modulus, ex, modulus)

(* toy_rsa_encrypt *)

\* `!is_prime_like(p) || !is_prime_like(q)`, q is screened only when p
\* passed: "true" (both pass), "false" or "panic"
prime_screen(p, q) ==
    LET sp == is_prime_like(p)
    IN IF sp # "true" THEN sp ELSE is_prime_like(q)

\* toy_rsa_encrypt with the totient passed to mod_exp as the modulus
toy_rsa_encrypt_ModPhi(p, q, ex, msg) ==
    LET screen == prime_screen(p, q)
    IN IF screen = "panic" THEN Panic
       ELSE IF screen = "false" THEN 0
       ELSE LET phi == safe_mul_u64(safe_sub_u64(p, 1), safe_sub_u64(q, 1))
            IN IF gcd_u64(ex, phi) # 1 THEN 0 ELSE mod_exp(msg, ex, phi)

\* toy_rsa_encrypt with the screen written `&&`: it rejects only when both
\* candidates fail
toy_rsa_encrypt_AndScreen(p, q, ex, msg) ==
    LET sp == is_prime_like(p)
        sq == is_prime_like(q)
    IN IF sp = "panic" \/ (sp = "false" /\ sq = "panic") THEN Panic
       ELSE IF sp = "false" /\ sq = "false" THEN 0
       ELSE LET n == safe_mul_u64(p, q)
                phi == safe_mul_u64(safe_sub_u64(p, 1), safe_sub_u64(q, 1))
            IN IF gcd_u64(ex, phi) # 1 THEN 0 ELSE mod_exp(msg, ex, n)

toy_rsa_encrypt(p, q, ex, msg) ==
    LET screen == prime_screen(p, q)
    IN IF screen = "panic" THEN Panic
       ELSE IF screen = "false" THEN 0
       ELSE LET n == safe_mul_u64(p, q)
                phi_p == safe_sub_u64(p, 1)
                phi_q == safe_sub_u64(q, 1)
                phi == safe_mul_u64(phi_p, phi_q)
            IN IF gcd_u64(ex, phi) # 1 THEN 0 ELSE mod_exp(msg, ex, n)

(* partial_fallback *)

\* partial_fallback recursing on the candidates it was given, not on the
\* halves
RECURSIVE partial_fallback_SameCandidates(_, _, _, _, _)
partial_fallback_SameCandidates(p, q, ex, msg, attempts) ==
    IF attempts = 0 THEN 0
    ELSE LET p_half == safe_div_u64(p, 2)
             q_half == safe_div_u64(q, 2)
             encrypted_half == toy_rsa_encrypt(p_half, q_half, ex, msg)
         IN IF encrypted_half # 0 THEN encrypted_half
            ELSE partial_fallback_SameCandidates(p, q, ex, msg, attempts - 1)

RECURSIVE partial_fallback(_, _, _, _, _)
partial_fallback(p, q, ex, msg, attempts) ==
    IF attempts = 0 THEN 0
    ELSE LET p_half == safe_div_u64(p, 2)
             q_half == safe_div_u64(q, 2)
             encrypted_half == toy_rsa_encrypt(p_half, q_half, ex, msg)
         IN IF encrypted_half # 0 THEN encrypted_half
            ELSE partial_fallback(p_half, q_half, ex, msg, attempts - 1)

(* extended_gcd: the result is [panic, g, x]; (g, x) is the returned pair  *)

\* extended_gcd with the base case returning (a, 0)
RECURSIVE extended_gcd_ZeroBase(_, _)
extended_gcd_ZeroBase(x, y) ==
    IF y = 0 THEN [panic |-> FALSE, g |-> x, x |-> 0]
    ELSE IF DivOverflows(x, y) THEN [panic |-> TRUE, g |-> 0, x |-> 0]
    ELSE LET r == extended_gcd_ZeroBase(y, i64_rem(x, y))
             prod == i64_mul(safe_sub_i64(0, safe_div_i64(x, y).val), r.x)
             diff == i64_sub(r.x, prod.val)
         IN IF r.panic \/ prod.panic \/ diff.panic
            THEN [panic |-> TRUE, g |-> 0, x |-> 0]
            ELSE [panic |-> FALSE, g |-> r.g, x |-> diff.val]

RECURSIVE extended_gcd(_, _)
extended_gcd(x, y) ==
    IF y = 0 THEN [panic |-> FALSE, g |-> x, x |-> 1]
    ELSE IF DivOverflows(x, y) THEN [panic |-> TRUE, g |-> 0, x |-> 0]
    ELSE LET r == extended_gcd(y, i64_rem(x, y))
             prod == i64_mul(safe_sub_i64(0, safe_div_i64(x, y).val), r.x)
             diff == i64_sub(r.x, prod.val)
         IN IF r.panic \/ prod.panic \/ diff.panic
            THEN [panic |-> TRUE, g |-> 0, x |-> 0]
            ELSE [panic |-> FALSE, g |-> r.g, x |-> diff.val]

(* mod_inverse *)

mod_inverse(x, y) ==
    IF y = 0 THEN 0
    ELSE LET r == extended_gcd(as_i64(x), as_i64(y))
         IN IF r.panic THEN Panic
            ELSE IF r.g # 1 THEN 0
            ELSE IF DivOverflows(r.x, as_i64(y)) THEN Panic
            ELSE LET inv0 == i64_rem(r.x, as_i64(y))
                     inv1 == IF inv0 < 0 THEN safe_add_i64(inv0, as_i64(y))
                             ELSE inv0
                 IN as_u64(inv1)

(* toy_rsa_encrypt_crt *)

\* toy_rsa_encrypt_crt with the sentinel test written `&&`: it gives up only
\* when both inverses are 0
toy_rsa_encrypt_crt_BothZero(p, q, ex, msg) ==
    LET screen == prime_screen(p, q)
    IN IF screen = "panic" THEN Panic
       ELSE IF screen = "false" THEN 0
       ELSE LET n == safe_mul_u64(p, q)
                p_enc == mod_exp(msg, ex, p)
                q_enc == mod_exp(msg, ex, q)
                q_inv_mod_p == mod_inverse(q, p)
                p_inv_mod_q == mod_inverse(p, q)
            IN IF q_inv_mod_p = Panic \/ p_inv_mod_q = Panic THEN Panic
               ELSE IF q_inv_mod_p = 0 /\ p_inv_mod_q = 0 THEN 0
               ELSE LET term1 == safe_mul_u64(q, q_inv_mod_p) % n
                        partial1 == safe_mul_u64(term1, p_enc) % n
                        term2 == safe_mul_u64(p, p_inv_mod_q) % n
                        partial2 == safe_mul_u64(term2, q_enc) % n
                    IN safe_add_u64(partial1, partial2) % n

\* toy_rsa_encrypt_crt returning the sum of the two parts without the final
\* `% n`
toy_rsa_encrypt_crt_UnreducedSum(p, q, ex, msg) ==
    LET screen == prime_screen(p, q)
    IN IF screen = "panic" THEN Panic
       ELSE IF screen = "false" THEN 0
       ELSE LET n == safe_mul_u64(p, q)
                p_enc == mod_exp(msg, ex, p)
                q_enc == mod_exp(msg, ex, q)
                q_inv_mod_p == mod_inverse(q, p)
                p_inv_mod_q == mod_inverse(p, q)
            IN IF q_inv_mod_p = Panic \/ p_inv_mod_q = Panic THEN Panic
               ELSE IF q_inv_mod_p = 0 \/ p_inv_mod_q = 0 THEN 0
               ELSE LET term1 == safe_mul_u64(q, q_inv_mod_p) % n
                        partial1 == safe_mul_u64(term1, p_enc) % n
                        term2 == safe_mul_u64(p, p_inv_mod_q) % n
                        partial2 == safe_mul_u64(term2, q_enc) % n
                    IN safe_add_u64(partial1, partial2)

toy_rsa_encrypt_crt(p, q, ex, msg) ==
    LET screen == prime_screen(p, q)
    IN IF screen = "panic" THEN Panic
       ELSE IF screen = "false" THEN 0
       ELSE LET n == safe_mul_u64(p, q)
                p_enc == mod_exp(msg, ex, p)
                q_enc == mod_exp(msg, ex, q)
                q_inv_mod_p == mod_inverse(q, p)
                p_inv_mod_q == mod_inverse(p, q)
            IN IF q_inv_mod_p = Panic \/ p_inv_mod_q = Panic THEN Panic
               ELSE IF q_inv_mod_p = 0 \/ p_inv_mod_q = 0 THEN 0
               ELSE LET term1 == safe_mul_u64(q, q_inv_mod_p) % n
                        partial1 == safe_mul_u64(term1, p_enc) % n
                        term2 == safe_mul_u64(p, p_inv_mod_q) % n
                        partial2 == safe_mul_u64(term2, q_enc) % n
                    IN safe_add_u64(partial1, partial2) % n

(* combine_results: XOR of the slice, left to right *)

RECURSIVE xor(_, _)
xor(x, y) ==
    IF x = 0 THEN y
    ELSE IF y = 0 THEN x
    ELSE 2 * xor(x \div 2, y \div 2) + (IF x % 2 = y % 2 THEN 0 ELSE 1)

RECURSIVE combine_results_loop(_, _)
combine_results_loop(out, results) ==
    IF results = <<>> THEN out
    ELSE combine_results_loop(xor(out, Head(results)), Tail(results))

\* combine_results with `out += r`
combine_results_Sum(results) == results[1] + results[2]

combine_results(results) == combine_results_loop(0, results)

(* main as a function of its arguments: the value it returns, or Panic *)

main(p, q, ex, msg, flag) ==
    LET enc == toy_rsa_encrypt(p, q, ex, msg)
    IN IF enc = Panic THEN Panic
       ELSE IF enc = 0
       THEN LET fb == partial_fallback(p, q, ex, msg, 3)
            IN IF fb = 0 THEN 0 ELSE fb
       ELSE LET crt == IF flag = 1 THEN toy_rsa_encrypt_crt(p, q, ex, msg)
                       ELSE 0
            IN IF crt = Panic THEN Panic
               ELSE combine_results(<<enc, crt>>)

---------------------------------------------------------------------------
(* main, as a state machine.  pc is the position in main's body:           *)
(*   "standard"  before Step 1 (toy_rsa_encrypt)                           *)
(*   "fallback"  before Step 2 (partial_fallback), encrypted == 0          *)
(*   "crt"       before Step 3 (the use_crt branch), encrypted != 0        *)
(*   "combine"   before Step 4 (combine_results)                           *)
(*   "done"      main returned ret                                         *)
(*   "panicked"  main panicked                                             *)
(* calls is the sequence of engine functions main has called so far.       *)

Candidates == {0, 1, 2, 3, 4, 9, 53, 61, 67, 577, 106, 122, 424, 488, 4099}
\* two primes on which extended_gcd's coefficient outgrows i64
OverflowPairs == {<<128467, 79397>>, <<79397, 128467>>}
\* two primes on which the CRT value can equal the standard ciphertext
CancellingPairs == {<<2, 5>>, <<5, 2>>}
\* a prime whose trial division reaches i * i beyond u64, with a composite
ScreenOverflowPairs == {<<16769033, 4>>, <<4, 16769033>>}
KeyPairs ==
    (Candidates \X Candidates) \cup OverflowPairs \cup CancellingPairs
        \cup ScreenOverflowPairs
Exponents == {0, 1, 2, 3, 17}
Messages == {0, 2, 65, 4330}
Flags == {0, 1, 2}

InitMain ==
    /\ \E kp \in KeyPairs : p_candidate = kp[1] /\ q_candidate = kp[2]
    /\ e \in Exponents
    /\ message \in Messages
    \* the long trial division is run with one exponent and one message
    /\ <<p_candidate, q_candidate>> \in ScreenOverflowPairs =>
          (e = 3 /\ message = 2)
    /\ use_crt \in Flags
    /\ pc = "standard"
    /\ encrypted = NotStarted
    /\ fallback_encrypted = NotStarted
    /\ crt_encrypted = NotStarted
    /\ ret = NotStarted
    /\ calls = <<>>

\* Step 1: let encrypted = toy_rsa_encrypt(...); if encrypted == 0 { .. }
Standard ==
    /\ pc = "standard"
    /\ LET r == toy_rsa_encrypt(p_candidate, q_candidate, e, message)
       IN /\ encrypted' = r
          /\ pc' = IF r = Panic THEN "panicked"
                   ELSE IF r = 0 THEN "fallback" ELSE "crt"
          /\ ret' = IF r = Panic THEN Panic ELSE ret
    /\ calls' = Append(calls, "toy_rsa_encrypt")
    /\ UNCHANGED <<p_candidate, q_candidate, e, message, use_crt,
                   fallback_encrypted, crt_encrypted, overflow_checks,
                   invVars, callVars, loopVars>>

\* Step 2 without its `return`: main goes on to Step 3
Fallback_NoReturn ==
    /\ pc = "fallback"
    /\ LET r == partial_fallback(p_candidate, q_candidate, e, message, 3)
       IN /\ fallback_encrypted' = r
          /\ pc' = IF r = Panic THEN "panicked" ELSE "crt"
          /\ ret' = IF r = Panic THEN Panic ELSE ret
    /\ calls' = Append(calls, "partial_fallback")
    /\ UNCHANGED <<p_candidate, q_candidate, e, message, use_crt,
                   encrypted, crt_encrypted, overflow_checks,
                   invVars, callVars, loopVars>>

\* Step 2: the fallback, and both of its returns
Fallback ==
    /\ pc = "fallback"
    /\ LET r == partial_fallback(p_candidate, q_candidate, e, message, 3)
       IN /\ fallback_encrypted' = r
          /\ pc' = IF r = Panic THEN "panicked" ELSE "done"
          /\ ret' = IF r = 0 THEN 0 ELSE r
    /\ calls' = Append(calls, "partial_fallback")
    /\ UNCHANGED <<p_candidate, q_candidate, e, message, use_crt,
                   encrypted, crt_encrypted, overflow_checks,
                   invVars, callVars, loopVars>>

\* Step 3 with the flag tested as `use_crt != 0`
Crt_AnyNonzeroFlag ==
    /\ pc = "crt"
    /\ LET r == IF use_crt # 0
                THEN toy_rsa_encrypt_crt(p_candidate, q_candidate, e, message)
                ELSE 0
       IN /\ crt_encrypted' = r
          /\ pc' = IF r = Panic THEN "panicked" ELSE "combine"
          /\ ret' = IF r = Panic THEN Panic ELSE ret
    /\ calls' = IF use_crt # 0 THEN Append(calls, "toy_rsa_encrypt_crt")
                ELSE calls
    /\ UNCHANGED <<p_candidate, q_candidate, e, message, use_crt,
                   encrypted, fallback_encrypted, overflow_checks,
                   invVars, callVars, loopVars>>

\* Step 3: let crt_encrypted = if use_crt == 1 { toy_rsa_encrypt_crt(..) } else { 0 }
Crt ==
    /\ pc = "crt"
    /\ LET r == IF use_crt = 1
                THEN toy_rsa_encrypt_crt(p_candidate, q_candidate, e, message)
                ELSE 0
       IN /\ crt_encrypted' = r
          /\ pc' = IF r = Panic THEN "panicked" ELSE "combine"
          /\ ret' = IF r = Panic THEN Panic ELSE ret
    /\ calls' = IF use_crt = 1 THEN Append(calls, "toy_rsa_encrypt_crt")
                ELSE calls
    /\ UNCHANGED <<p_candidate, q_candidate, e, message, use_crt,
                   encrypted, fallback_encrypted, overflow_checks,
                   invVars, callVars, loopVars>>

\* Step 4: combine_results(&[encrypted, crt_encrypted])
Combine ==
    /\ pc = "combine"
    /\ ret' = combine_results(<<encrypted, crt_encrypted>>)
    /\ pc' = "done"
    /\ UNCHANGED <<p_candidate, q_candidate, e, message, use_crt, calls,
                   encrypted, fallback_encrypted, crt_encrypted,
                   overflow_checks,
                   invVars, callVars, loopVars>>

\* main is not running
IdleMain ==
    /\ p_candidate = 0
    /\ q_candidate = 0
    /\ e = 0
    /\ message = 0
    /\ use_crt = 0
    /\ pc = "idle"
    /\ encrypted = NotStarted
    /\ fallback_encrypted = NotStarted
    /\ crt_encrypted = NotStarted
    /\ ret = NotStarted
    /\ calls = <<>>

\* no direct call of mod_inverse or extended_gcd
IdleInverse ==
    /\ call = "none"
    /\ arg_a = 0
    /\ arg_m = 0
    /\ inv = NotStarted
    /\ egcd = [panic |-> FALSE, g |-> 0, x |-> 0]

\* no direct call of any other function
IdleCalls ==
    /\ args = <<>>
    /\ returned = NotStarted

\* no loop is being stepped
IdleLoops ==
    /\ loop = "none"
    /\ frame = [done |-> FALSE, panic |-> FALSE]

Init ==
    /\ overflow_checks \in BOOLEAN
    /\ InitMain
    /\ IdleInverse
    /\ IdleCalls
    /\ IdleLoops

Next == Standard \/ Fallback \/ Crt \/ Combine

Spec == Init /\ [][Next]_vars

---------------------------------------------------------------------------
(* SpecInverse: direct calls of mod_inverse(arg_a, arg_m) and of           *)
(* extended_gcd(arg_a as i64, arg_m as i64), one call per behaviour, on    *)
(* every pair of words of InverseArgs.                                     *)

MaxArg == 12

\* 75025, 121393: consecutive Fibonacci numbers, the longest Euclid chain
InverseArgs == (0..MaxArg) \cup {75025, 121393, I64_MAX, I64_MAX + 1, U64_MAX}

InitInverse ==
    /\ overflow_checks \in BOOLEAN
    /\ IdleMain
    /\ call = "none"
    /\ arg_a \in InverseArgs
    /\ arg_m \in InverseArgs
    /\ inv = NotStarted
    /\ egcd = [panic |-> FALSE, g |-> 0, x |-> 0]
    /\ IdleCalls
    /\ IdleLoops

CallModInverse ==
    /\ call = "none"
    /\ call' = "mod_inverse"
    /\ inv' = mod_inverse(arg_a, arg_m)
    /\ UNCHANGED <<arg_a, arg_m, egcd, overflow_checks, mainVars,
                   callVars, loopVars>>

CallExtendedGcd ==
    /\ call = "none"
    /\ call' = "extended_gcd"
    /\ egcd' = extended_gcd(as_i64(arg_a), as_i64(arg_m))
    /\ UNCHANGED <<arg_a, arg_m, inv, overflow_checks, mainVars,
                   callVars, loopVars>>

NextInverse == CallModInverse \/ CallExtendedGcd

SpecInverse == InitInverse /\ [][NextInverse]_vars

---------------------------------------------------------------------------
(* SpecCalls: one direct call per behaviour of is_prime_like, mod_exp,     *)
(* partial_fallback, toy_rsa_encrypt_crt or toy_rsa_encrypt.  args is the  *)
(* argument list of the call and returned is its result (Panic, or         *)
(* "panic" for is_prime_like, when the call panicked).                     *)

MaxCandidate == 300
MaxAttempts == 4

\* 4099: a prime above 2^12.  8388617: the first prime above 2^23, negative
\* when a 24-bit word is read as signed.  16769025 = 4095^2 and 16769033,
\* the first prime above it: trial division goes on to i = 4096, where
\* i * i = 2^24 does not fit a 24-bit word.
PrimeCandidates == (0..MaxCandidate) \cup {4099, 8388617, 16769025, 16769033}

\* 4330^2 exceeds a 24-bit word: the squaring in mod_exp saturates for the
\* moduli above 4330
ModExpBases == {0, 1, 2, 3, 65, 4330, U64_MAX}
ModExpExps == {0, 1, 2, 3, 5, 17, U64_MAX}
ModExpModuli == {0, 1, 2, 3, 10, 3233, 4097, 8198, I64_MAX, U64_MAX}

\* 106, 122: twice a prime; 424, 488: eight times; 848, 976: sixteen times
FallbackCandidates == {0, 1, 4, 106, 122, 424, 488, 848, 976, U64_MAX}
FallbackExponents == {0, 3, 17}
FallbackMessages == {0, 65}

CrtCandidates == {0, 1, 2, 3, 4, 9, 53, 61, 4099, 8388617, 16769033}
CrtExponents == {3, 17}
CrtMessages == {2, 65}

InitCalls ==
    /\ overflow_checks \in BOOLEAN
    /\ IdleMain
    /\ IdleInverse
    /\ IdleCalls
    /\ IdleLoops

CallIsPrimeLike ==
    /\ call = "none"
    /\ call' = "is_prime_like"
    /\ \E c \in PrimeCandidates :
          /\ args' = <<c>>
          /\ returned' = is_prime_like(c)
    /\ UNCHANGED <<arg_a, arg_m, inv, egcd, overflow_checks, mainVars,
                   loopVars>>

CallModExp ==
    /\ call = "none"
    /\ call' = "mod_exp"
    /\ \E b \in ModExpBases, ex \in ModExpExps, n \in ModExpModuli :
          /\ args' = <<b, ex, n>>
          /\ returned' = mod_exp(b, ex, n)
    /\ UNCHANGED <<arg_a, arg_m, inv, egcd, overflow_checks, mainVars,
                   loopVars>>

CallPartialFallback ==
    /\ call = "none"
    /\ call' = "partial_fallback"
    /\ \E p \in FallbackCandidates, q \in FallbackCandidates,
          ex \in FallbackExponents, msg \in FallbackMessages,
          attempts \in 0..MaxAttempts :
          /\ args' = <<p, q, ex, msg, attempts>>
          /\ returned' = partial_fallback(p, q, ex, msg, attempts)
    /\ UNCHANGED <<arg_a, arg_m, inv, egcd, overflow_checks, mainVars,
                   loopVars>>

CallToyRsaEncryptCrt ==
    /\ call = "none"
    /\ call' = "toy_rsa_encrypt_crt"
    /\ \E p \in CrtCandidates, q \in CrtCandidates,
          ex \in CrtExponents, msg \in CrtMessages :
          /\ args' = <<p, q, ex, msg>>
          /\ returned' = toy_rsa_encrypt_crt(p, q, ex, msg)
    /\ UNCHANGED <<arg_a, arg_m, inv, egcd, overflow_checks, mainVars,
                   loopVars>>

\* toy_rsa_encrypt on the argument set of the CRT calls
CallToyRsaEncrypt ==
    /\ call = "none"
    /\ call' = "toy_rsa_encrypt"
    /\ \E p \in CrtCandidates, q \in CrtCandidates,
          ex \in CrtExponents, msg \in CrtMessages :
          /\ args' = <<p, q, ex, msg>>
          /\ returned' = toy_rsa_encrypt(p, q, ex, msg)
    /\ UNCHANGED <<arg_a, arg_m, inv, egcd, overflow_checks, mainVars,
                   loopVars>>

NextCalls ==
    CallIsPrimeLike \/ CallModExp \/ CallPartialFallback
        \/ CallToyRsaEncryptCrt \/ CallToyRsaEncrypt

SpecCalls == InitCalls /\ [][NextCalls]_vars

---------------------------------------------------------------------------
(* SpecLoops: the loops and recursions of the engine, one pass or one call *)
(* per step.  An Enter action is the function's entry up to its loop (or   *)
(* its first call frame), a Step action is one evaluation of the loop      *)
(* condition and body (or one call frame of the recursion).  frame holds   *)
(* the loop's variables; frame.done says that the function has returned    *)
(* or panicked, frame.panic that it panicked.                              *)

GcdArgs == {0, 1, 2, 3, 17, 3120, 75025, 121393, U64_MAX}

\* is_prime_like: `if candidate < 2 { return false; } let mut i = 2u64;`
EnterIsPrimeLike ==
    /\ loop = "none"
    /\ loop' = "is_prime_like"
    /\ \E c \in PrimeCandidates :
          frame' = [candidate |-> c, i |-> 2, done |-> c < 2,
                    panic |-> FALSE, out |-> IF c < 2 THEN "false" ELSE ""]
    /\ UNCHANGED <<overflow_checks, mainVars, invVars, callVars>>

\* is_prime_like: one pass of `while i * i <= candidate { .. }`
StepIsPrimeLike ==
    /\ loop = "is_prime_like"
    /\ ~frame.done
    /\ LET st == is_prime_like_iter(frame.candidate, frame.i)
       IN frame' = [frame EXCEPT !.i = st.i, !.done = st.done,
                                 !.panic = (st.out = "panic"),
                                 !.out = st.out]
    /\ UNCHANGED <<loop, overflow_checks, mainVars, invVars, callVars>>

\* gcd_u64(a, b)
EnterGcd ==
    /\ loop = "none"
    /\ loop' = "gcd_u64"
    /\ \E x \in GcdArgs, y \in GcdArgs :
          frame' = [a |-> x, b |-> y, done |-> FALSE, panic |-> FALSE,
                    out |-> 0]
    /\ UNCHANGED <<overflow_checks, mainVars, invVars, callVars>>

\* gcd_u64 with the loop body `b = a; a = temp`: the operands are swapped
\* and never reduced
StepGcd_Swap ==
    /\ loop = "gcd_u64"
    /\ ~frame.done
    /\ frame' = IF frame.b # 0
                THEN [frame EXCEPT !.a = frame.b, !.b = frame.a]
                ELSE [frame EXCEPT !.done = TRUE, !.out = frame.a]
    /\ UNCHANGED <<loop, overflow_checks, mainVars, invVars, callVars>>

\* gcd_u64: one pass of `while b != 0 { temp = b; b = a % b; a = temp }`
StepGcd ==
    /\ loop = "gcd_u64"
    /\ ~frame.done
    /\ frame' = IF frame.b # 0
                THEN [frame EXCEPT !.a = frame.b, !.b = frame.a % frame.b]
                ELSE [frame EXCEPT !.done = TRUE, !.out = frame.a]
    /\ UNCHANGED <<loop, overflow_checks, mainVars, invVars, callVars>>

\* mod_exp: `if modulus == 0 { return 0; }` and the three `let mut`
EnterModExp ==
    /\ loop = "none"
    /\ loop' = "mod_exp"
    /\ \E b \in ModExpBases, ex \in ModExpExps, n \in ModExpModuli :
          frame' = [result |-> 1,
                    current |-> IF n = 0 THEN 0 ELSE b % n,
                    ex |-> ex, modulus |-> n,
                    done |-> n = 0, panic |-> FALSE, out |-> 0]
    /\ UNCHANGED <<overflow_checks, mainVars, invVars, callVars>>

\* mod_exp: one pass of `while e > 0 { .. e >>= 1; }`
StepModExp ==
    /\ loop = "mod_exp"
    /\ ~frame.done
    /\ frame' =
          IF frame.ex > 0
          THEN [frame EXCEPT
                  !.result = IF frame.ex % 2 = 1
                             THEN safe_mul_u64(frame.result, frame.current)
                                      % frame.modulus
                             ELSE frame.result,
                  !.current = safe_mul_u64(frame.current, frame.current)
                                  % frame.modulus,
                  !.ex = frame.ex \div 2]
          ELSE [frame EXCEPT !.done = TRUE, !.out = frame.result]
    /\ UNCHANGED <<loop, overflow_checks, mainVars, invVars, callVars>>

\* extended_gcd(a, b): the first call frame; stack holds the (a, b) of the
\* calls that have not returned yet, innermost last
EnterExtendedGcd ==
    /\ loop = "none"
    /\ loop' = "extended_gcd"
    /\ \E x \in InverseArgs, y \in InverseArgs :
          frame' = [stack |-> << <<as_i64(x), as_i64(y)>> >>,
                    unwinding |-> FALSE, g |-> 0, x |-> 0,
                    done |-> FALSE, panic |-> FALSE]
    /\ UNCHANGED <<overflow_checks, mainVars, invVars, callVars>>

\* extended_gcd: the innermost frame runs up to its recursive call (or its
\* base-case return), or, once the inner call has returned (g, x1), from
\* there to its own return
StepExtendedGcd ==
    /\ loop = "extended_gcd"
    /\ ~frame.done
    /\ LET top == frame.stack[Len(frame.stack)]
           rest == SubSeq(frame.stack, 1, Len(frame.stack) - 1)
           prod == i64_mul(safe_sub_i64(0, safe_div_i64(top[1], top[2]).val),
                           frame.x)
           diff == i64_sub(frame.x, prod.val)
       IN frame' =
            IF ~frame.unwinding
            THEN IF top[2] = 0
                 THEN [frame EXCEPT !.unwinding = TRUE, !.g = top[1],
                                    !.x = 1, !.stack = rest,
                                    !.done = (rest = <<>>)]
                 ELSE IF DivOverflows(top[1], top[2])
                 THEN [frame EXCEPT !.done = TRUE, !.panic = TRUE]
                 ELSE [frame EXCEPT
                         !.stack = Append(frame.stack,
                                          <<top[2], i64_rem(top[1], top[2])>>)]
            ELSE IF prod.panic \/ diff.panic
                 THEN [frame EXCEPT !.done = TRUE, !.panic = TRUE]
                 ELSE [frame EXCEPT !.x = diff.val, !.stack = rest,
                                    !.done = (rest = <<>>)]
    /\ UNCHANGED <<loop, overflow_checks, mainVars, invVars, callVars>>

\* partial_fallback(p, q, e, message, attempts): the first call frame;
\* budget is the attempts of the outermost call and tried counts the calls
\* of toy_rsa_encrypt so far
EnterPartialFallback ==
    /\ loop = "none"
    /\ loop' = "partial_fallback"
    /\ \E p \in FallbackCandidates, q \in FallbackCandidates,
          ex \in FallbackExponents, msg \in FallbackMessages,
          attempts \in 0..MaxAttempts :
          frame' = [p |-> p, q |-> q, ex |-> ex, msg |-> msg,
                    attempts |-> attempts, budget |-> attempts, tried |-> 0,
                    done |-> FALSE, panic |-> FALSE, out |-> 0]
    /\ UNCHANGED <<overflow_checks, mainVars, invVars, callVars>>

\* partial_fallback with `attempts == 0` tested after the attempt
StepPartialFallback_TryFirst ==
    /\ loop = "partial_fallback"
    /\ ~frame.done
    /\ LET p_half == safe_div_u64(frame.p, 2)
           q_half == safe_div_u64(frame.q, 2)
           encrypted_half == toy_rsa_encrypt(p_half, q_half, frame.ex,
                                             frame.msg)
       IN frame' =
            IF encrypted_half # 0
            THEN [frame EXCEPT !.tried = @ + 1, !.done = TRUE,
                               !.panic = (encrypted_half = Panic),
                               !.out = encrypted_half]
            ELSE IF frame.attempts = 0
            THEN [frame EXCEPT !.tried = @ + 1, !.done = TRUE, !.out = 0]
            ELSE [frame EXCEPT !.tried = @ + 1, !.p = p_half, !.q = q_half,
                               !.attempts = @ - 1]
    /\ UNCHANGED <<loop, overflow_checks, mainVars, invVars, callVars>>

\* partial_fallback: one call frame, up to its return or its recursive call
StepPartialFallback ==
    /\ loop = "partial_fallback"
    /\ ~frame.done
    /\ LET p_half == safe_div_u64(frame.p, 2)
           q_half == safe_div_u64(frame.q, 2)
           encrypted_half == toy_rsa_encrypt(p_half, q_half, frame.ex,
                                             frame.msg)
       IN frame' =
            IF frame.attempts = 0
            THEN [frame EXCEPT !.done = TRUE, !.out = 0]
            ELSE IF encrypted_half # 0
            THEN [frame EXCEPT !.tried = @ + 1, !.done = TRUE,
                               !.panic = (encrypted_half = Panic),
                               !.out = encrypted_half]
            ELSE [frame EXCEPT !.tried = @ + 1, !.p = p_half, !.q = q_half,
                               !.attempts = @ - 1]
    /\ UNCHANGED <<loop, overflow_checks, mainVars, invVars, callVars>>

InitLoops ==
    /\ overflow_checks \in BOOLEAN
    /\ IdleMain
    /\ IdleInverse
    /\ IdleCalls
    /\ IdleLoops

EnterLoops ==
    EnterIsPrimeLike \/ EnterGcd \/ EnterModExp \/ EnterExtendedGcd
        \/ EnterPartialFallback

StepLoops ==
    StepIsPrimeLike \/ StepGcd \/ StepModExp \/ StepExtendedGcd
        \/ StepPartialFallback

NextLoops == EnterLoops \/ StepLoops

\* a loop has been entered and its function has not returned or panicked
Running == loop # "none" /\ ~frame.done

\* Fairness: the engine is sequential code, so a function that has been
\* entered keeps executing.  This is weak fairness of StepLoops, written with
\* its enabling condition Running in place of ENABLED <<StepLoops>>_vars
\* (every step changes frame, and only a StepLoops step changes the state of
\* a running loop).
KeepsRunning == []<>(~Running) \/ []<><<TRUE>>_vars

SpecLoops == InitLoops /\ [][NextLoops]_vars /\ KeepsRunning

---------------------------------------------------------------------------
(* Reference arithmetic for the properties: exact values over the          *)
(* integers, independent of the engine's saturating operations.            *)

\* the exact product x * y can be written down (below 2^30)
ExactFits(x, y) == ~MulExceeds(x, y, Pow2(30))

\* gcd of two naturals
RECURSIVE GCD(_, _)
GCD(x, y) == IF y = 0 THEN x ELSE GCD(y, x % y)

\* b^ex mod n, n > 0, exactly
RECURSIVE PowMod(_, _, _)
PowMod(b, ex, n) ==
    IF ex = 0 THEN 1 % n
    ELSE LET h == PowMod(b, ex \div 2, n)
             sq == MulMod(h, h, n)
         IN IF ex % 2 = 1 THEN MulMod(b % n, sq, n) ELSE sq

\* c is prime: no d with 2 <= d < c divides it.  A word below 2^WordBits
\* that has a proper divisor has one that is at most 2^((WordBits + 1) / 2).
IsPrime(c) ==
    /\ c >= 2
    /\ \A d \in 2..Pow2((WordBits + 1) \div 2) : d < c => c % d # 0

\* bit i of a natural
Bit(v, i) == (v \div Pow2(i)) % 2

\* r is the bitwise exclusive or of the words x and y
IsXor(r, x, y) ==
    /\ r \in U64
    /\ \A i \in 0..(WordBits - 1) : Bit(r, i) = (Bit(x, i) + Bit(y, i)) % 2

\* the functions main has called
Called(f) == \E i \in 1..Len(calls) : calls[i] = f

\* main has returned from toy_rsa_encrypt(p_candidate, q_candidate, e, message)
AfterStandard == pc \in {"fallback", "crt", "combine", "done"}

---------------------------------------------------------------------------
(* Properties of main (specification Spec) *)

\* C1: once toy_rsa_encrypt has returned 0, what main returns is exactly
\* partial_fallback(p, q, e, message, 3) (0 when that is 0, the fallback
\* value otherwise), whatever use_crt is, and the CRT path is never run.
C1_FallbackDecidesResult ==
    (encrypted = 0 /\ pc \in {"done", "panicked"}) =>
        /\ ret = partial_fallback(p_candidate, q_candidate, e, message, 3)
        /\ fallback_encrypted = ret
        /\ crt_encrypted = NotStarted
        /\ ~Called("toy_rsa_encrypt_crt")

\* C1 witness: the standard path returned 0, the CRT flag is set and main
\* returned a nonzero fallback ciphertext
C1_Witness ==
    /\ pc = "done"
    /\ encrypted = 0
    /\ use_crt = 1
    /\ ret > 0
    /\ ret = fallback_encrypted

\* C2: when toy_rsa_encrypt returned a nonzero enc, main returns enc XOR crt,
\* crt being toy_rsa_encrypt_crt(p, q, e, message) when use_crt = 1 and 0 for
\* every other use_crt.
C2_XorOfBothPaths ==
    (pc = "done" /\ encrypted > 0) =>
        IsXor(ret, encrypted,
              IF use_crt = 1
              THEN toy_rsa_encrypt_crt(p_candidate, q_candidate, e, message)
              ELSE 0)

\* C2 witness: main returned with both paths nonzero and sharing a bit, so
\* the result is neither of them nor their sum
C2_Witness ==
    /\ pc = "done"
    /\ encrypted > 0
    /\ use_crt = 1
    /\ crt_encrypted > 0
    /\ ret # encrypted
    /\ ret # encrypted + crt_encrypted

\* C3: the standard step is main's first call; the fallback controller is
\* entered only after the standard step returned 0; the CRT step is entered
\* only after the standard step returned nonzero and only with use_crt = 1;
\* no invocation runs both the fallback and the CRT step.
C3_StepOrder ==
    /\ (pc # "standard") = (calls # <<>>)
    /\ calls # <<>> => calls[1] = "toy_rsa_encrypt"
    /\ \A i \in 2..Len(calls) : calls[i] # "toy_rsa_encrypt"
    /\ Len(calls) <= 2
    /\ (pc = "fallback" \/ Called("partial_fallback")) => encrypted = 0
    /\ pc = "crt" => encrypted > 0
    /\ Called("toy_rsa_encrypt_crt") => (encrypted > 0 /\ use_crt = 1)
    /\ ~(Called("partial_fallback") /\ Called("toy_rsa_encrypt_crt"))

\* C3 witness: main ran the standard step and then the CRT step, and returned
C3_Witness ==
    /\ pc = "done"
    /\ calls = <<"toy_rsa_encrypt", "toy_rsa_encrypt_crt">>

\* C4 (as claimed): whenever p and q pass is_prime_like and
\* gcd(e, (p-1)(q-1)) = 1, toy_rsa_encrypt returns message^e mod n for the
\* exact product n = p*q.
C4_ExactCiphertext ==
    (/\ AfterStandard
     /\ ExactFits(p_candidate, q_candidate)
     /\ is_prime_like(p_candidate) = "true"
     /\ is_prime_like(q_candidate) = "true"
     /\ GCD(e, (p_candidate - 1) * (q_candidate - 1)) = 1)
    => encrypted = PowMod(message, e, p_candidate * q_candidate)

\* C5: toy_rsa_encrypt(61, 53, 17, 65) = 2790 = mod_exp(65, 17, 3233), with
\* n = 3233, phi = 3120 and gcd(17, 3120) = 1.
C5_Scenario ==
    (/\ AfterStandard
     /\ p_candidate = 61 /\ q_candidate = 53 /\ e = 17 /\ message = 65)
    => /\ encrypted = 2790
       /\ encrypted = mod_exp(65, 17, 3233)
       /\ PowMod(65, 17, 3233) = 2790
       /\ safe_mul_u64(p_candidate, q_candidate) = 3233
       /\ safe_mul_u64(safe_sub_u64(p_candidate, 1),
                       safe_sub_u64(q_candidate, 1)) = 3120
       /\ gcd_u64(e, 3120) = 1

\* C5 witness: the scenario has been encrypted
C5_Witness ==
    /\ AfterStandard
    /\ p_candidate = 61 /\ q_candidate = 53 /\ e = 17 /\ message = 65
    /\ encrypted = 2790

---------------------------------------------------------------------------
(* Properties of mod_inverse and extended_gcd (specification SpecInverse) *)

\* a*x + b*y = g has an integer solution y (a, b >= 0): a*x = g when b = 0,
\* a*x congruent to g modulo b otherwise
HasBezoutPartner(x_a, x_b, g, x) ==
    IF x_b = 0 THEN x_a * x = g
    ELSE MulMod(x_a % x_b, x % x_b, x_b) = g % x_b

\* C7 (as claimed): mod_inverse(a, m) = 0 whenever gcd(a, m) # 1, and for
\* every other pair with m > 0 the returned inv satisfies a * inv = 1 modulo m
\* (read as a congruence, so that m = 1, where every residue is 0, is not
\* held against the code).
C7_InverseMultipliesToOne ==
    call = "mod_inverse" =>
        /\ GCD(arg_a, arg_m) # 1 => inv = 0
        /\ (arg_m > 0 /\ GCD(arg_a, arg_m) = 1) =>
              /\ inv \in U64
              /\ MulMod(arg_a, inv, arg_m) = 1 % arg_m

\* C8 (as claimed): for non-negative signed a, b, extended_gcd(a, b) returns
\* (g, x) with g = gcd(a, b) and x a Bezout coefficient of a: a*x + b*y = g
\* for some integer y.
C8_BezoutCoefficient ==
    (/\ call = "extended_gcd"
     /\ as_i64(arg_a) >= 0
     /\ as_i64(arg_m) >= 0)
    => /\ ~egcd.panic
       /\ egcd.g = GCD(arg_a, arg_m)
       /\ HasBezoutPartner(arg_a, arg_m, egcd.g, egcd.x)

\* C9 (as claimed): a 0 from mod_inverse means that no inverse exists: for
\* m >= 2 and gcd(a, m) = 1 the result is nonzero, and 0 is returned only
\* when m = 0, m = 1 or gcd(a, m) # 1.
C9_ZeroMeansNoInverse ==
    call = "mod_inverse" =>
        /\ (arg_m >= 2 /\ GCD(arg_a, arg_m) = 1) => inv # 0
        /\ inv = 0 => (arg_m = 0 \/ arg_m = 1 \/ GCD(arg_a, arg_m) # 1)

---------------------------------------------------------------------------
(* Properties of the CRT path (specification Spec) *)

\* (q * q_inv_mod_p * p_enc + p * p_inv_mod_q * q_enc) mod (p*q), exactly,
\* for the residues p_enc = msg^ex mod p and q_enc = msg^ex mod q
CrtExact(p, q, ex, msg, q_inv_mod_p, p_inv_mod_q) ==
    LET n == p * q
        t1 == MulMod(MulMod(q, q_inv_mod_p, n), PowMod(msg, ex, p), n)
        t2 == MulMod(MulMod(p, p_inv_mod_q, n), PowMod(msg, ex, q), n)
    IN (t1 + t2) % n

\* C10 (as claimed): when p and q pass the screen and both cross-inverses are
\* nonzero, toy_rsa_encrypt_crt returns exactly
\* (q * q_inv_mod_p * p_enc + p * p_inv_mod_q * q_enc) mod n with n = p*q:
\* saturation never alters the value.
C10_CrtExactValue ==
    (/\ pc \in {"combine", "done"}
     /\ Called("toy_rsa_encrypt_crt")
     /\ ExactFits(p_candidate, q_candidate)
     /\ is_prime_like(p_candidate) = "true"
     /\ is_prime_like(q_candidate) = "true"
     /\ mod_inverse(q_candidate, p_candidate) > 0
     /\ mod_inverse(p_candidate, q_candidate) > 0)
    => crt_encrypted = CrtExact(p_candidate, q_candidate, e, message,
                                mod_inverse(q_candidate, p_candidate),
                                mod_inverse(p_candidate, q_candidate))

\* C11: with use_crt = 1, whenever toy_rsa_encrypt returned a nonzero
\* ciphertext and mod_inverse(q, p) or mod_inverse(p, q) is 0, the CRT step
\* does not panic, toy_rsa_encrypt_crt returns 0 and main returns the
\* standard-path ciphertext unchanged.
C11_ZeroInverseKeepsStandard ==
    (/\ pc \in {"combine", "done", "panicked"}
     /\ use_crt = 1
     /\ encrypted > 0
     /\ \/ mod_inverse(q_candidate, p_candidate) = 0
        \/ mod_inverse(p_candidate, q_candidate) = 0)
    => /\ pc # "panicked"
       /\ Called("toy_rsa_encrypt_crt")
       /\ crt_encrypted = 0
       /\ pc = "done" => ret = encrypted

\* C11 witness: two different primes, exactly one of the two inverses is 0,
\* and main returned the standard ciphertext
C11_Witness ==
    /\ pc = "done"
    /\ use_crt = 1
    /\ encrypted > 0
    /\ p_candidate # q_candidate
    /\ (mod_inverse(q_candidate, p_candidate) = 0)
          # (mod_inverse(p_candidate, q_candidate) = 0)
    /\ crt_encrypted = 0
    /\ ret = encrypted

---------------------------------------------------------------------------
(* Properties of direct calls (specification SpecCalls) *)

\* C12 (as claimed): toy_rsa_encrypt_crt(p, q, e, message) returns 0 whenever
\* p or q fails is_prime_like and whenever mod_inverse(q, p) = 0 or
\* mod_inverse(p, q) = 0.
C12_CrtRejects ==
    call = "toy_rsa_encrypt_crt" =>
        /\ (is_prime_like(args[1]) = "false"
              \/ is_prime_like(args[2]) = "false") => returned = 0
        /\ (mod_inverse(args[2], args[1]) = 0
              \/ mod_inverse(args[1], args[2]) = 0) => returned = 0

\* toy_rsa_encrypt(p div 2^k, q div 2^k, ex, msg) for the smallest k in
\* 1..attempts for which it is nonzero, 0 when there is none
FirstWorkingHalving(p, q, ex, msg, attempts) ==
    LET halved(k) == toy_rsa_encrypt(p \div Pow2(k), q \div Pow2(k), ex, msg)
        working == {k \in 1..attempts : halved(k) # 0}
    IN IF working = {} THEN 0
       ELSE halved(CHOOSE k \in working : \A j \in working : k <= j)

\* C13: partial_fallback(p, q, e, m, attempts) is toy_rsa_encrypt(p div 2^k,
\* q div 2^k, e, m) for the smallest k in 1..attempts for which that value is
\* nonzero and 0 when there is no such k; with attempts = 0 it is 0.
C13_FirstWorkingHalving ==
    call = "partial_fallback" =>
        /\ returned = FirstWorkingHalving(args[1], args[2], args[3], args[4],
                                          args[5])
        /\ args[5] = 0 => returned = 0

\* C13 witness: the first two halvings fail and the third one encrypts
C13_Witness ==
    /\ call = "partial_fallback"
    /\ args[5] >= 3
    /\ toy_rsa_encrypt(args[1] \div 2, args[2] \div 2, args[3], args[4]) = 0
    /\ toy_rsa_encrypt(args[1] \div 4, args[2] \div 4, args[3], args[4]) = 0
    /\ returned > 0
    /\ returned = toy_rsa_encrypt(args[1] \div 8, args[2] \div 8, args[3],
                                  args[4])

\* C16 (as claimed): is_prime_like(c) returns true exactly when c is prime:
\* it rejects every c < 2, accepts no composite and rejects no prime.
C16_ExactlyThePrimes ==
    call = "is_prime_like" =>
        /\ returned \in {"true", "false"}
        /\ (returned = "true") = IsPrime(args[1])
        /\ args[1] < 2 => returned = "false"

C18_ModulusOneGivesZero ==
    (call = "mod_exp" /\ args[3] = 1) => returned = 0

\* C19 (as claimed): for every modulus > 0, mod_exp(base, exp, modulus) is
\* base^exp mod modulus; the saturating multiply never changes the result.
C19_ExactPower ==
    (call = "mod_exp" /\ args[3] > 0) =>
        returned = PowMod(args[1], args[2], args[3])

---------------------------------------------------------------------------
(* Properties of the loops and recursions (specification SpecLoops) *)

\* C14: partial_fallback is a bounded retry.  A call with attempts = k makes
\* at most k calls of toy_rsa_encrypt (the top-level k = 3 at most 3,
\* whatever the magnitude of p and q); every recursive call makes one
\* attempt and has a strictly smaller attempts, never below 0; and every
\* call returns.
C14_BoundedRetry ==
    /\ [](loop = "partial_fallback" =>
            /\ frame.tried <= frame.budget
            /\ frame.attempts \in 0..frame.budget
            /\ (frame.done /\ frame.budget = 3) => frame.tried <= 3)
    /\ [][(loop = "partial_fallback" /\ ~frame'.done) =>
            /\ frame'.attempts < frame.attempts
            /\ frame'.attempts >= 0
            /\ frame'.tried = frame.tried + 1]_vars
    /\ (loop = "partial_fallback" /\ ~frame.done) ~> frame.done

\* C14 witness: a call with attempts = 3 on the largest candidates has used
\* its three attempts and returned 0
C14_Witness ==
    /\ loop = "partial_fallback"
    /\ frame.done
    /\ frame.budget = 3
    /\ frame.tried = 3
    /\ frame.attempts = 0
    /\ frame.out = 0
    /\ frame.p = U64_MAX \div 8
    /\ frame.q = U64_MAX \div 8

\* C15: every loop and recursion that main runs ends: once entered, the
\* trial division of is_prime_like, the bit loop of mod_exp, the Euclid loop
\* of gcd_u64, the recursion of extended_gcd (operands of either sign) and
\* the recursion of partial_fallback reach the point where the function
\* returns or, on an arithmetic overflow, panics.
C15_EveryLoopEnds == Running ~> frame.done

\* C15 witness: extended_gcd has returned from a call whose first operand
\* was negative, with every frame unwound
C15_Witness ==
    /\ loop = "extended_gcd"
    /\ frame.done
    /\ ~frame.panic
    /\ frame.unwinding
    /\ frame.stack = <<>>
    /\ frame.g < 0

---------------------------------------------------------------------------
(* The base case of extended_gcd (specification SpecInverse) *)

\* C20: extended_gcd(a, 0) = (a, 1) for every signed a, negative a included.
C20_BaseCase ==
    (call = "extended_gcd" /\ arg_m = 0) =>
        /\ ~egcd.panic
        /\ egcd.g = as_i64(arg_a)
        /\ egcd.x = 1

\* C20 witness: extended_gcd(a, 0) has returned (a, 1) for a negative a
C20_Witness ==
    /\ call = "extended_gcd"
    /\ arg_m = 0
    /\ as_i64(arg_a) < 0
    /\ egcd = [panic |-> FALSE, g |-> as_i64(arg_a), x |-> 1]

---------------------------------------------------------------------------
(* The range of mod_inverse (specification SpecInverse) *)

\* C21: for every u64 a and every m > 0, mod_inverse(a, m) returns a value
\* in [0, m).
C21_InverseInRange ==
    (call = "mod_inverse" /\ arg_m > 0) =>
        /\ inv # Panic
        /\ inv >= 0
        /\ inv < arg_m

---------------------------------------------------------------------------
(* SpecArith: one direct call per behaviour of one of the eight safe       *)
(* operations.  args is the pair of operands and returned the outcome      *)
(* [panic, val] of the call.                                               *)

\* operands: small values and the words at both ends of the range
ArithWords ==
    {0, 1, 2, 3, 7, 4096, 4097, I64_MAX - 1, I64_MAX, I64_MAX + 1,
     I64_MAX + 2, U64_MAX - 2, U64_MAX - 1, U64_MAX}

\* the same words read as i64
ArithSigned == {as_i64(u) : u \in ArithWords}

Value(v) == [panic |-> FALSE, val |-> v]

InitArith ==
    /\ overflow_checks \in BOOLEAN
    /\ IdleMain
    /\ IdleInverse
    /\ IdleCalls
    /\ IdleLoops

CallSafeAddU64 ==
    /\ call = "none"
    /\ call' = "safe_add_u64"
    /\ \E x \in ArithWords, y \in ArithWords :
          /\ args' = <<x, y>>
          /\ returned' = Value(safe_add_u64(x, y))
    /\ UNCHANGED <<arg_a, arg_m, inv, egcd, overflow_checks, mainVars, loopVars>>

CallSafeSubU64 ==
    /\ call = "none"
    /\ call' = "safe_sub_u64"
    /\ \E x \in ArithWords, y \in ArithWords :
          /\ args' = <<x, y>>
          /\ returned' = Value(safe_sub_u64(x, y))
    /\ UNCHANGED <<arg_a, arg_m, inv, egcd, overflow_checks, mainVars, loopVars>>

CallSafeMulU64 ==
    /\ call = "none"
    /\ call' = "safe_mul_u64"
    /\ \E x \in ArithWords, y \in ArithWords :
          /\ args' = <<x, y>>
          /\ returned' = Value(safe_mul_u64(x, y))
    /\ UNCHANGED <<arg_a, arg_m, inv, egcd, overflow_checks, mainVars, loopVars>>

CallSafeDivU64 ==
    /\ call = "none"
    /\ call' = "safe_div_u64"
    /\ \E x \in ArithWords, y \in ArithWords :
          /\ args' = <<x, y>>
          /\ returned' = Value(safe_div_u64(x, y))
    /\ UNCHANGED <<arg_a, arg_m, inv, egcd, overflow_checks, mainVars, loopVars>>

CallSafeAddI64 ==
    /\ call = "none"
    /\ call' = "safe_add_i64"
    /\ \E x \in ArithSigned, y \in ArithSigned :
          /\ args' = <<x, y>>
          /\ returned' = Value(safe_add_i64(x, y))
    /\ UNCHANGED <<arg_a, arg_m, inv, egcd, overflow_checks, mainVars, loopVars>>

CallSafeSubI64 ==
    /\ call = "none"
    /\ call' = "safe_sub_i64"
    /\ \E x \in ArithSigned, y \in ArithSigned :
          /\ args' = <<x, y>>
          /\ returned' = Value(safe_sub_i64(x, y))
    /\ UNCHANGED <<arg_a, arg_m, inv, egcd, overflow_checks, mainVars, loopVars>>

CallSafeMulI64 ==
    /\ call = "none"
    /\ call' = "safe_mul_i64"
    /\ \E x \in ArithSigned, y \in ArithSigned :
          /\ args' = <<x, y>>
          /\ returned' = Value(safe_mul_i64(x, y))
    /\ UNCHANGED <<arg_a, arg_m, inv, egcd, overflow_checks, mainVars, loopVars>>

CallSafeDivI64 ==
    /\ call = "none"
    /\ call' = "safe_div_i64"
    /\ \E x \in ArithSigned, y \in ArithSigned :
          /\ args' = <<x, y>>
          /\ returned' = safe_div_i64(x, y)
    /\ UNCHANGED <<arg_a, arg_m, inv, egcd, overflow_checks, mainVars, loopVars>>

NextArith ==
    \/ CallSafeAddU64
    \/ CallSafeSubU64
    \/ CallSafeMulU64
    \/ CallSafeDivU64
    \/ CallSafeAddI64
    \/ CallSafeSubI64
    \/ CallSafeMulI64
    \/ CallSafeDivI64

SpecArith == InitArith /\ [][NextArith]_vars

---------------------------------------------------------------------------
(* Properties of the safe operations (specification SpecArith) *)

\* the value of range lo..hi nearest to the exact result v
Clamp(v, lo, hi) == IF v > hi THEN hi ELSE IF v < lo THEN lo ELSE v

\* the exact product x * y clamped to lo..hi (lo <= 0 <= hi), decided
\* without forming a product beyond the range
ClampedProduct(x, y, lo, hi) ==
    IF (x < 0) = (y < 0)
    THEN IF MulExceeds(Abs(x), Abs(y), hi) THEN hi ELSE x * y
    ELSE IF MulExceeds(Abs(x), Abs(y), 0 - lo) THEN lo ELSE x * y

\* C22: safe_add, safe_sub and safe_mul, unsigned and signed, return the
\* exact result when it is representable, the maximum of the type when the
\* exact result lies above the range and the minimum (0 for u64, i64::MIN
\* for i64) when it lies below; they never wrap.
C22_Saturates ==
    /\ call = "safe_add_u64" =>
          returned = Value(Clamp(args[1] + args[2], 0, U64_MAX))
    /\ call = "safe_sub_u64" =>
          returned = Value(Clamp(args[1] - args[2], 0, U64_MAX))
    /\ call = "safe_mul_u64" =>
          returned = Value(ClampedProduct(args[1], args[2], 0, U64_MAX))
    /\ call = "safe_add_i64" =>
          returned = Value(Clamp(args[1] + args[2], I64_MIN, I64_MAX))
    /\ call = "safe_sub_i64" =>
          returned = Value(Clamp(args[1] - args[2], I64_MIN, I64_MAX))
    /\ call = "safe_mul_i64" =>
          returned = Value(ClampedProduct(args[1], args[2], I64_MIN, I64_MAX))

\* C23: safe_div_u64 and safe_div_i64 are total: they return 0 when the
\* divisor is 0 and return a value, without trapping, for every other pair
\* of operands, safe_div_i64(i64::MIN, -1) included.
C23_DivisionIsTotal ==
    call \in {"safe_div_u64", "safe_div_i64"} =>
        /\ ~returned.panic
        /\ args[2] = 0 => returned.val = 0

---------------------------------------------------------------------------
(* Arithmetic range in main (specification Spec) *)

\* C24: no arithmetic operation reachable from main leaves its range
\* outside the saturating helpers, so main never traps: on every input it
\* runs to its return.
C24_NeverTraps == pc # "panicked"

---------------------------------------------------------------------------
(* The message under the modulus (specification Spec) *)

\* C25: the message is not range-checked and wraps under the modulus: for
\* p, q that pass the screen with n = p*q representable, and every e and
\* message, toy_rsa_encrypt(p, q, e, message) equals
\* toy_rsa_encrypt(p, q, e, message mod n).
C25_MessageWraps ==
    (/\ AfterStandard
     /\ is_prime_like(p_candidate) = "true"
     /\ is_prime_like(q_candidate) = "true"
     /\ ~MulExceeds(p_candidate, q_candidate, U64_MAX))
    => encrypted = toy_rsa_encrypt(p_candidate, q_candidate, e,
                                   message % (p_candidate * q_candidate))

\* C25 witness: toy_rsa_encrypt has returned a ciphertext for a message
\* above the modulus, equal to the one of the reduced message
C25_Witness ==
    /\ AfterStandard
    /\ p_candidate = 53 /\ q_candidate = 61 /\ e = 17 /\ message = 4330
    /\ message > p_candidate * q_candidate
    /\ encrypted > 0
    /\ encrypted = toy_rsa_encrypt(53, 61, 17, 1097)

---------------------------------------------------------------------------
(* The failure sentinel of main (specification Spec) *)

\* C27: main returns the failure sentinel 0 only when toy_rsa_encrypt and
\* partial_fallback both returned 0: whenever the standard path yields a
\* nonzero ciphertext, main's result is nonzero, for every use_crt.
C27_ZeroOnlyOnFailure ==
    pc = "done" =>
        /\ encrypted > 0 => ret # 0
        /\ ret = 0 => (encrypted = 0 /\ fallback_encrypted = 0)

---------------------------------------------------------------------------
(* The CRT path as a reconstruction (specification SpecCalls) *)

\* C28: whenever toy_rsa_encrypt_crt(p, q, e, m) returns a nonzero r for
\* distinct p, q that pass the screen, r is congruent to m^e modulo p and
\* modulo q, i.e. r = m^e mod (p*q).
C28_CrtReconstructs ==
    (/\ call = "toy_rsa_encrypt_crt"
     /\ returned > 0
     /\ args[1] # args[2]
     /\ is_prime_like(args[1]) = "true"
     /\ is_prime_like(args[2]) = "true"
     /\ ExactFits(args[1], args[2]))
    => /\ returned % args[1] = PowMod(args[4], args[3], args[1])
       /\ returned % args[2] = PowMod(args[4], args[3], args[2])
       /\ returned = PowMod(args[4], args[3], args[1] * args[2])

---------------------------------------------------------------------------
(* The range of the ciphertexts (specification SpecCalls) *)

\* C29: for every modulus >= 2, mod_exp(base, exp, modulus) < modulus;
\* hence every value toy_rsa_encrypt(p, q, e, m) returns is below the
\* modulus n = safe_mul_u64(p, q) it computed, and so is every value
\* toy_rsa_encrypt_crt returns.
C29_BelowModulus ==
    /\ (call = "mod_exp" /\ args[3] >= 2) =>
          (returned >= 0 /\ returned < args[3])
    /\ (/\ call \in {"toy_rsa_encrypt", "toy_rsa_encrypt_crt"}
        /\ returned # Panic
        /\ prime_screen(args[1], args[2]) = "true") =>
          (returned >= 0 /\ returned < safe_mul_u64(args[1], args[2]))

\* C29 witness: toy_rsa_encrypt_crt(61, 53, 17, 65) has returned a nonzero
\* value below n = 3233, as toy_rsa_encrypt does on the same arguments
C29_Witness ==
    /\ call = "toy_rsa_encrypt_crt"
    /\ args = <<61, 53, 17, 65>>
    /\ returned > 0
    /\ returned < 3233
    /\ toy_rsa_encrypt(61, 53, 17, 65) \in 1..3232

---------------------------------------------------------------------------
(* Symmetry of main in its prime candidates (specification Spec) *)

\* C30: main(p, q, e, m, use_crt) = main(q, p, e, m, use_crt) for all
\* inputs, on the standard, fallback and CRT paths alike.
C30_Symmetric ==
    pc \in {"done", "panicked"} =>
        ret = main(q_candidate, p_candidate, e, message, use_crt)

===========================================================================
